---- MODULE Spec2Model ----
(***************************************************************************)
(* Fofo_Bot (src/main.py): the Gemini text-rewrite client call_gemini_api   *)
(* and the two "De-idiotize" context-menu handlers that call it.            *)
(*                                                                          *)
(* Python and JSON values are tagged records: [t |-> "null"],               *)
(* [t |-> "str", v |-> s], [t |-> "num", v |-> n], [t |-> "arr", v |-> seq] *)
(* and [t |-> "obj", v |-> function from keys to values].  Strings are TLA+ *)
(* strings, so concatenation and slicing are those of the text itself.      *)
(***************************************************************************)
EXTENDS Integers, Sequences, FiniteSets, TLC

VARIABLES GOOGLE_API_KEY, text_input, endpoint, call, inv, open_sessions, open_responses

vars == <<GOOGLE_API_KEY, text_input, endpoint, call, inv, open_sessions, open_responses>>

(***************************************************************************)
(* Bounds of the model.                                                     *)
(***************************************************************************)
\* longest input text, in tokens of Alphabet
MaxTextLen == 2
\* elements that follow element 0 in a response's "candidates" or "parts"
MaxExtra == 1
\* handler invocations that may be in flight together
MaxConcurrent == 2

(***************************************************************************)
(* Values.                                                                  *)
(***************************************************************************)
PyNone == [t |-> "null"]
PyStr(s) == [t |-> "str", v |-> s]
PyNum(n) == [t |-> "num", v |-> n]
PyArr(q) == [t |-> "arr", v |-> q]
PyObj(f) == [t |-> "obj", v |-> f]
EmptyObj == PyObj(<<>>)

\* whether s begins with prefix
StartsWith(s, prefix) ==
    Len(s) >= Len(prefix) /\ SubSeq(s, 1, Len(prefix)) = prefix

\* str.strip() for blanks
RECURSIVE Strip(_)
Strip(s) ==
    IF s = "" THEN ""
    ELSE IF SubSeq(s, 1, 1) = " " THEN Strip(Tail(s))
    ELSE IF SubSeq(s, Len(s), Len(s)) = " " THEN Strip(SubSeq(s, 1, Len(s) - 1))
    ELSE s

\* Falsy as "GOOGLE_API_KEY is None" would have it: an empty key passes
KeyIsNone(x) == x.t = "null"

\* Python truthiness of the values an environment variable can have
Falsy(x) ==
    \/ x.t = "null"
    \/ x.t = "str" /\ x.v = ""

\* whether sub occurs in s
Contains(s, sub) ==
    \E i \in 1..(Len(s) - Len(sub) + 1) : SubSeq(s, i, i + Len(sub) - 1) = sub

\* whether the string sub occurs in any string of the value x (keys included)
RECURSIVE Occurs(_, _)
Occurs(sub, x) ==
    CASE x.t = "str" -> Contains(x.v, sub)
      [] x.t = "arr" -> \E i \in DOMAIN x.v : Occurs(sub, x.v[i])
      [] x.t = "obj" -> \E k \in DOMAIN x.v : Contains(k, sub) \/ Occurs(sub, x.v[k])
      [] OTHER -> FALSE

(***************************************************************************)
(* Configuration and constants of main.py.                                  *)
(***************************************************************************)
GEMINI_URL == "https://generativelanguage.googleapis.com/v1beta/models/gemini-2.0-flash:generateContent"

\* The prompt of lines 47-66, in the characters a TLA+ string can hold: each
\* backtick is written ^ and the accented letters of the Czech example words
\* ("mas", "Mam problem", "Pise", "Nevim") are written unaccented.
system_prompt ==
    "You are a technical support editor. Your task is to rewrite the user's text into "
    \o "clear, concise, and grammatically correct standard language (keep the same language as input). "
    \o "Guidelines:\n"
    \o "1. Fix spelling, grammar, and punctuation.\n"
    \o "2. Remove slang, aggression, and excessive abbreviations.\n"
    \o "3. IDENTITY PRESERVATION (CRITICAL): Detect usernames, nicknames, exact error codes, or file paths. "
    \o "Keep them EXACTLY as they appear (case-sensitive) and WRAP THEM in single backticks (^). "
    \o "Example: 'user_name' -> ^user_name^. This prevents Discord formatting issues.\n"
    \o "4. FORMATTING: Use Discord Markdown to improve readability where useful. "
    \o "Use **bold** for emphasis or key concepts. Use bullet points (*) if the input contains a list of items or steps.\n"
    \o "5. Output ONLY the rewritten text.\n\n"
    \o "Examples:\n"
    \o "Input: ahoj Pepik123 jak se mas\n"
    \o "Output: Ahoj ^Pepik123^, jak se mas?\n"
    \o "Input: ban user xX_Destroyer_Xx pls because he griefed\n"
    \o "Output: Please ban user ^xX_Destroyer_Xx^ because he **griefed**.\n"
    \o "Input: mam problem nejde mi mc, pise to error 500 a nevim heslo\n"
    \o "Output: Mam problem:\n* Nejde mi **Minecraft**\n* Pise to ^error 500^\n* Nevim heslo"

MissingKeyMessage == "[Error: API Key is missing. Check your .env file]"
UnexpectedFormatMessage == "[Error: Unexpected response format from Google AI]"

(***************************************************************************)
(* The request of one call (lines 45-75).                                   *)
(***************************************************************************)
headers(key) ==
    ("Content-Type" :> "application/json") @@ ("x-goog-api-key" :> key.v)

\* payload with the input trimmed before it is appended
payload_stripped(text) ==
    PyObj([contents |-> PyArr(<<
        PyObj([parts |-> PyArr(<<
            PyObj([text |-> PyStr(system_prompt \o "\n\nInput Text:\n" \o Strip(text))])
        >>)])
    >>)])

payload(text) ==
    PyObj([contents |-> PyArr(<<
        PyObj([parts |-> PyArr(<<
            PyObj([text |-> PyStr(system_prompt \o "\n\nInput Text:\n" \o text)])
        >>)])
    >>)])

\* Request with the key as a query parameter of the URL
RequestKeyInUrl(key, text) ==
    [url |-> GEMINI_URL \o "?key=" \o key.v,
     headers |-> ("Content-Type" :> "application/json"),
     json |-> payload(text)]

\* session.post(GEMINI_URL, headers=headers, json=payload)
Request(key, text) ==
    [url |-> GEMINI_URL, headers |-> headers(key), json |-> payload(text)]

(***************************************************************************)
(* Python's x[k] on decoded JSON: k is a name (x["candidates"]) or an       *)
(* index (x[0]).  The result is the value, or the exception Python raises.  *)
(***************************************************************************)
Name(s) == [k |-> "name", s |-> s, i |-> 0]
Index(i) == [k |-> "index", s |-> "", i |-> i]

Got(x) == [ok |-> TRUE, v |-> x, exc |-> ""]
Raised(e) == [ok |-> FALSE, v |-> PyNone, exc |-> e]

Subscript(x, k) ==
    CASE x.t = "obj" ->
            IF k.k = "name" /\ k.s \in DOMAIN x.v THEN Got(x.v[k.s]) ELSE Raised("KeyError")
      [] x.t = "arr" ->
            IF k.k = "name" THEN Raised("TypeError")
            ELSE IF k.i + 1 \in DOMAIN x.v THEN Got(x.v[k.i + 1]) ELSE Raised("IndexError")
      [] x.t = "str" ->
            IF k.k = "name" THEN Raised("TypeError")
            ELSE IF k.i < Len(x.v) THEN Got(PyStr(SubSeq(x.v, k.i + 1, k.i + 1)))
            ELSE Raised("IndexError")
      [] OTHER -> Raised("TypeError")

\* result["candidates"][0]["content"]["parts"][0]["text"]
Path ==
    <<Name("candidates"), Index(0), Name("content"), Name("parts"), Index(0), Name("text")>>

RECURSIVE Walk(_, _)
Walk(x, path) ==
    IF path = <<>> THEN Got(x)
    ELSE LET r == Subscript(x, Head(path))
         IN  IF r.ok THEN Walk(r.v, Tail(path)) ELSE r

\* Extract with the text trimmed before it is returned
ExtractStripped(result) ==
    LET r == Walk(result, Path)
    IN  IF r.ok /\ r.v.t = "str" THEN Got(PyStr(Strip(r.v.v))) ELSE r

Extract(result) == Walk(result, Path)

(***************************************************************************)
(* JSON text.  Serialize writes a value as JSON; ParseJson, the decoding    *)
(* done by response.json(), is its inverse on the texts of JsonValues and   *)
(* fails on every other text.                                               *)
(***************************************************************************)
RECURSIVE Serialize(_), SerializeItems(_), SerializeMembers(_, _)
Serialize(x) ==
    CASE x.t = "null" -> "null"
      [] x.t = "bool" -> IF x.v THEN "true" ELSE "false"
      [] x.t = "num" -> ToString(x.v)
      [] x.t = "str" -> "\"" \o x.v \o "\""
      [] x.t = "arr" -> "[" \o SerializeItems(x.v) \o "]"
      [] x.t = "obj" -> "{" \o SerializeMembers(x.v, DOMAIN x.v) \o "}"

SerializeItems(q) ==
    IF q = <<>> THEN ""
    ELSE IF Len(q) = 1 THEN Serialize(q[1])
    ELSE Serialize(q[1]) \o ", " \o SerializeItems(Tail(q))

SerializeMembers(f, keys) ==
    IF keys = {} THEN ""
    ELSE LET k == CHOOSE n \in keys : TRUE
             m == "\"" \o k \o "\": " \o Serialize(f[k])
         IN  IF keys = {k} THEN m ELSE m \o ", " \o SerializeMembers(f, keys \ {k})

(***************************************************************************)
(* The inputs: keys, message texts, and what the endpoint may do.           *)
(***************************************************************************)
KeyText == "AIzaSy"
\* os.getenv: None when unset, else the string (which may be empty)
Keys == {PyNone, PyStr(""), PyStr(KeyText)}

Alphabet == {"a", " ", KeyText}

RECURSIVE TextsUpTo(_)
TextsUpTo(n) ==
    IF n = 0 THEN {""}
    ELSE LET S == TextsUpTo(n - 1) IN S \cup {s \o c : s \in S, c \in Alphabet}

Texts == TextsUpTo(MaxTextLen)

PyBool(b) == [t |-> "bool", v |-> b]
\* values that may stand anywhere in a body
Leaves == {PyNone, PyBool(TRUE), PyNum(7), PyStr(""), PyStr("ab"), PyArr(<<>>), EmptyObj}
\* texts a model may answer with
AnswerTexts == {"Ahoj ^Pepik123^", " padded ", "key " \o KeyText}

\* the container that x[k] reads x from, with the elements of rest after it in a list
Wrap(k, x, rest) ==
    IF k.k = "name" THEN PyObj(k.s :> x) ELSE PyArr(<<x>> \o rest)

\* x wrapped so that following Path[lo..hi] from the result leads to x
RECURSIVE NestPlain(_, _, _)
NestPlain(x, lo, hi) ==
    IF hi < lo THEN x ELSE NestPlain(Wrap(Path[hi], x, <<>>), lo, hi - 1)

\* a complete element that may follow element 0 of the list read at step d of Path
Decoy(d) == NestPlain(PyStr("decoy"), d + 1, Len(Path))

Rests(d) == {[i \in 1..n |-> Decoy(d)] : n \in 0..MaxExtra}

\* every value obtained by wrapping a value of X along Path[1..d]
RECURSIVE Nest(_, _)
Nest(X, d) ==
    IF d = 0 THEN X
    ELSE Nest({Wrap(Path[d], x, rest) : x \in X,
                                        rest \in IF Path[d].k = "index" THEN Rests(d) ELSE {<<>>}},
              d - 1)

\* Leaves put at every depth of the path, and the well-formed bodies
JsonValues ==
    UNION {Nest(Leaves, d) : d \in 0..Len(Path)}
        \cup Nest({PyStr(s) : s \in AnswerTexts}, Len(Path))

JsonText == [x \in JsonValues |-> Serialize(x)]

NonJsonTexts == {"", "internal error", "API key not valid: " \o KeyText}

BodyTexts == {JsonText[x] : x \in JsonValues} \cup NonJsonTexts

ParseJson(text) ==
    IF \E x \in JsonValues : JsonText[x] = text
    THEN Got(CHOOSE x \in JsonValues : JsonText[x] = text)
    ELSE Raised("JSONDecodeError")

Statuses == {200, 201, 204, 404, 500}

\* What the endpoint does to one POST: the connection fails or times out
\* (post = "raise"), or a response with a status arrives and reading its body
\* fails (read = "raise") or yields the body text.
NoResponse == [post |-> "raise", status |-> 0, read |-> "raise", body |-> ""]
Endpoints ==
    {NoResponse}
        \cup {[post |-> "ok", status |-> st, read |-> "raise", body |-> ""] : st \in Statuses}
        \cup {[post |-> "ok", status |-> st, read |-> "ok", body |-> b] :
                st \in Statuses, b \in BodyTexts}

(***************************************************************************)
(* call_gemini_api (lines 39-84).  How a call, or a step of it, ends: it    *)
(* returns value, or raises exc; branch names the statement that ended it.  *)
(***************************************************************************)
Return(branch, value) ==
    [outcome |-> "return", branch |-> branch, value |-> value, exc |-> ""]
Raise(branch, exc) ==
    [outcome |-> "raise", branch |-> branch, value |-> PyNone, exc |-> exc]

\* f"[API Error {response.status}]: {error_text}"
ApiErrorMessage(status, error_text) ==
    "[API Error " \o ToString(status) \o "]: " \o error_text

\* await response.text() and await response.json(); the client decodes a
\* blank body to None without parsing it
response_text(response) ==
    IF response.read = "raise" THEN Raised("ClientPayloadError") ELSE Got(PyStr(response.body))
response_json(response) ==
    IF response.read = "raise" THEN Raised("ClientPayloadError")
    ELSE IF Strip(response.body) = "" THEN Got(PyNone)
    ELSE ParseJson(response.body)

\* the body of "async with session.post(...) as response" (lines 76-84)
HandleResponse(response) ==
    IF response.status # 200
    THEN LET error_text == response_text(response)
         IN  IF error_text.ok
             THEN Return("api_error", PyStr(ApiErrorMessage(response.status, error_text.v.v)))
             ELSE Raise("text", error_text.exc)
    ELSE LET result == response_json(response)
         IN  IF ~result.ok THEN Raise("json", result.exc)
             ELSE LET r == Extract(result.v)
                  IN  IF r.ok THEN Return("success", r.v)
                      ELSE IF r.exc \in {"KeyError", "IndexError"}
                      THEN Return("format_error", PyStr(UnexpectedFormatMessage))
                      ELSE Raise("subscript", r.exc)

\* One whole call against an endpoint that behaves as ep: how it ends, the
\* client sessions it opened and the requests it sent.
call_gemini_api(text, key, ep) ==
    IF Falsy(key)
    THEN [end |-> Return("missing_key", PyStr(MissingKeyMessage)), sessions |-> 0, sent |-> <<>>]
    ELSE [end |-> IF ep.post = "raise" THEN Raise("post", "ClientConnectorError")
                  ELSE HandleResponse(ep),
          sessions |-> 1,
          sent |-> <<Request(key, text)>>]

NotCalled == [end |-> Return("not_called", PyNone), sessions |-> 0, sent |-> <<>>]

(***************************************************************************)
(* Spec: one call of call_gemini_api on every key, text and endpoint.       *)
(***************************************************************************)
NoInvocations == <<>>

Init ==
    /\ GOOGLE_API_KEY \in Keys
    /\ text_input \in Texts
    /\ endpoint \in Endpoints
    /\ call = NotCalled
    /\ inv = NoInvocations
    /\ open_sessions = {}
    /\ open_responses = {}

Call ==
    /\ call = NotCalled
    /\ call' = call_gemini_api(text_input, GOOGLE_API_KEY, endpoint)
    /\ UNCHANGED <<GOOGLE_API_KEY, text_input, endpoint, inv, open_sessions, open_responses>>

Next == Call

Spec == Init /\ [][Next]_vars

Called == call # NotCalled

(***************************************************************************)
(* What the specification calls a well-formed body, stated on the body      *)
(* itself: {"candidates": [{"content": {"parts": [{"text": ...}]}}]}.       *)
(***************************************************************************)
HasMember(x, name) == x.t = "obj" /\ name \in DOMAIN x.v
HasFirst(x) == x.t = "arr" /\ Len(x.v) >= 1

PathPresent(x) ==
    /\ HasMember(x, "candidates")
    /\ HasFirst(x.v["candidates"])
    /\ HasMember(x.v["candidates"].v[1], "content")
    /\ HasMember(x.v["candidates"].v[1].v["content"], "parts")
    /\ HasFirst(x.v["candidates"].v[1].v["content"].v["parts"])
    /\ HasMember(x.v["candidates"].v[1].v["content"].v["parts"].v[1], "text")

PathValue(x) == x.v["candidates"].v[1].v["content"].v["parts"].v[1].v["text"]

\* a key is configured: the variable is set, and not to the empty string
KeyConfigured == GOOGLE_API_KEY \notin {PyNone, PyStr("")}
\* the endpoint answered the call with a status and a body that was read
Answered == Called /\ KeyConfigured /\ endpoint.post = "ok" /\ endpoint.read = "ok"
Decodes == ParseJson(endpoint.body).ok
Decoded == ParseJson(endpoint.body).v
WellFormedBody == Decodes /\ PathPresent(Decoded) /\ PathValue(Decoded).t = "str"

ReturnedText(s) == call.end.outcome = "return" /\ call.end.value = PyStr(s)
IsFailureText(s) == StartsWith(s, "[Error") \/ StartsWith(s, "[API Error ")

(***************************************************************************)
(* The claims about one call.                                               *)
(***************************************************************************)
\* C1: call_gemini_api never raises: whatever the text and whatever the
\* endpoint does, the call ends by returning a string.
C1_NeverRaises ==
    Called => call.end.outcome = "return" /\ call.end.value.t = "str"

\* C2: with no API key configured (unset or empty) the call returns the
\* message beginning "[Error: API Key is missing" and does nothing on the
\* network: it opens no client session and sends no POST.
C2_MissingKeyNoNetwork ==
    (Called /\ ~KeyConfigured) =>
        /\ call.end.outcome = "return"
        /\ call.end.value.t = "str"
        /\ StartsWith(call.end.value.v, "[Error: API Key is missing")
        /\ call.sessions = 0
        /\ call.sent = <<>>

C2_Witness ==
    Called /\ GOOGLE_API_KEY = PyStr("") /\ text_input # "" /\ endpoint.post = "ok"

\* C3: a status outside 200..299 gives "[API Error <status>]: <raw body>";
\* a status in 200..299 gets its body parsed and never gives an
\* "[API Error ...]" string.
C3_StatusClasses ==
    Answered =>
        IF endpoint.status \in 200..299
        THEN ~(call.end.outcome = "return" /\ call.end.value.t = "str"
                 /\ StartsWith(call.end.value.v, "[API Error "))
        ELSE ReturnedText("[API Error " \o ToString(endpoint.status) \o "]: " \o endpoint.body)

\* C4: on a successful status, a body that does not decode, or in which the
\* path candidates[0].content.parts[0].text is absent or malformed at any
\* step, gives "[Error: Unexpected response format ...]", not an exception.
C4_MalformedGivesFormatError ==
    (Answered /\ endpoint.status = 200 /\ ~(Decodes /\ PathPresent(Decoded))) =>
        /\ call.end.outcome = "return"
        /\ call.end.value.t = "str"
        /\ StartsWith(call.end.value.v, "[Error: Unexpected response format")

C6_RequestBody ==
    \A n \in DOMAIN call.sent :
        LET body == call.sent[n].json
        IN  /\ body.t = "obj" /\ DOMAIN body.v = {"contents"}
            /\ body.v["contents"].t = "arr" /\ Len(body.v["contents"].v) = 1
            /\ LET content == body.v["contents"].v[1]
               IN  /\ content.t = "obj" /\ DOMAIN content.v = {"parts"}
                   /\ content.v["parts"].t = "arr" /\ Len(content.v["parts"].v) = 1
                   /\ LET part == content.v["parts"].v[1]
                      IN  /\ part.t = "obj" /\ DOMAIN part.v = {"text"}
                          /\ part.v["text"] =
                                PyStr(system_prompt \o "\n\nInput Text:\n" \o text_input)

C6_Witness ==
    Called /\ Len(call.sent) = 1 /\ text_input = " a"

\* C7: in every request sent the key is the value of the x-goog-api-key
\* header and appears nowhere else: the URL is the fixed endpoint, without
\* the key, and the body holds the key only if the input text holds it.
C7_KeyOnlyInHeader ==
    \A n \in DOMAIN call.sent :
        LET request == call.sent[n]
            key == GOOGLE_API_KEY.v
        IN  /\ request.url = GEMINI_URL
            /\ ~Contains(request.url, key)
            /\ "x-goog-api-key" \in DOMAIN request.headers
            /\ request.headers["x-goog-api-key"] = key
            /\ \A h \in DOMAIN request.headers \ {"x-goog-api-key"} :
                    ~Contains(h, key) /\ ~Contains(request.headers[h], key)
            /\ Occurs(key, request.json) => Contains(text_input, key)

C7_Witness ==
    /\ Called /\ Len(call.sent) = 1
    /\ Contains(text_input, KeyText)
    /\ Occurs(GOOGLE_API_KEY.v, call.sent[1].json)

\* C8: no Failure message returned holds the secret key, whatever the
\* endpoint answers.
C8_FailureHidesKey ==
    (Called /\ KeyConfigured /\ call.end.outcome = "return"
        /\ call.end.value.t = "str" /\ IsFailureText(call.end.value.v)) =>
        ~Contains(call.end.value.v, GOOGLE_API_KEY.v)

(***************************************************************************)
(* BotSpec: the two De-idiotize handlers (lines 126-181), up to             *)
(* MaxConcurrent invocations interleaved at their awaits.  inv[i] is the    *)
(* frame of invocation i: where it stands (pc), the handler, the message    *)
(* text, what it did in order (events: what it sent to the interaction and  *)
(* its call of call_gemini_api), the exception it caught (e), and the frame *)
(* of the call: the session it holds (0: none), the requests it sent, the   *)
(* response it holds and how the call ended.  open_sessions and             *)
(* open_responses are the client sessions and response scopes not yet       *)
(* released, each named by its session.                                     *)
(***************************************************************************)
Invocations == 1..MaxConcurrent

Handlers == {"De-idiotize", "De-idiotize_Ephemeral"}
IsEphemeral(handler) == handler = "De-idiotize_Ephemeral"

\* message.content of the target message
Contents == {"", "ahoj Pepik123"}

\* one endpoint behaviour for each way a call can end
BotBodies ==
    {"{}", "[]", JsonText[NestPlain(PyStr("Ahoj ^Pepik123^"), 1, Len(Path))]}
BotEndpoints ==
    {ep \in Endpoints :
        \/ ep.post = "raise"
        \/ ep.status = 500 /\ (ep.read = "ok" => ep.body = "internal error")
        \/ ep.status = 200 /\ ep.read = "ok" /\ ep.body \in BotBodies}

\* the leading mark of the message is a cross-mark emoji in the source
NoTextMessage == "(x) That message doesn't contain any text."

\* One event of a handler: send_message, defer or followup on the interaction,
\* or the call of call_gemini_api on content.  ok tells whether a followup
\* that the handler sends inside its try block raised; every other event
\* carries TRUE, since nothing in the handler runs on its outcome.
Event(op, content, embed, ephemeral, ok) ==
    [op |-> op, content |-> content, embed |-> embed, ephemeral |-> ephemeral, ok |-> ok]

CallEvent(text) == Event("call", PyStr(text), FALSE, FALSE, TRUE)

Pending == Return("pending", PyNone)

Idle ==
    [pc |-> "idle", handler |-> "", original_text |-> "", events |-> <<>>, e |-> "",
     session |-> 0, sent |-> <<>>, response |-> NoResponse, end |-> Pending]

\* ClientSession(): a session that is no open session
NewSession(open) ==
    CHOOSE n \in 1..(Cardinality(open) + 1) : n \notin open

\* AfterCall without the try: an exception of the call ends the handler
AfterCallUncaught(end) ==
    IF end.outcome = "return" THEN "followup" ELSE "done"

\* where the handler goes when call_gemini_api has ended (try / except Exception)
AfterCall(end) ==
    IF end.outcome = "return" THEN "followup" ELSE "except"

\* Exit as a close() written after the block would do: skipped by an exception
ExitUnlessRaised(open, id, end) ==
    IF end.outcome = "raise" THEN open ELSE open \ {id}

\* what leaving an "async with" scope of session id does to the open scopes
Exit(open, id, end) == open \ {id}

BotInit ==
    /\ GOOGLE_API_KEY \in {PyNone, PyStr(KeyText)}
    /\ text_input = ""
    /\ endpoint = NoResponse
    /\ call = NotCalled
    /\ inv = [i \in Invocations |-> Idle]
    /\ open_sessions = {}
    /\ open_responses = {}

\* The handler is invoked on a message (lines 129-141 and 158-170): an empty
\* text is answered at once, any other text defers the interaction.
Invoke(i) ==
    /\ inv[i].pc = "idle"
    /\ \E handler \in Handlers, content \in Contents :
        inv' = [inv EXCEPT ![i] =
            IF content = ""
            THEN [@ EXCEPT !.pc = "done", !.handler = handler, !.original_text = content,
                           !.events = <<Event("send_message", PyStr(NoTextMessage),
                                               FALSE, TRUE, TRUE)>>]
            ELSE [@ EXCEPT !.pc = "deferred", !.handler = handler, !.original_text = content,
                           !.events = <<Event("defer", PyNone, FALSE,
                                               IsEphemeral(handler), TRUE)>>]]
    /\ UNCHANGED <<GOOGLE_API_KEY, text_input, endpoint, call, open_sessions, open_responses>>

\* call_gemini_api(original_text) up to its first await (lines 39-75): the
\* key check, then the session is opened and the POST sent.
StartCall(i) ==
    /\ inv[i].pc = "deferred"
    /\ IF Falsy(GOOGLE_API_KEY)
       THEN /\ inv' = [inv EXCEPT ![i] =
                    [@ EXCEPT !.events = Append(@, CallEvent(inv[i].original_text)),
                              !.end = Return("missing_key", PyStr(MissingKeyMessage)),
                              !.pc = AfterCall(Return("missing_key", PyStr(MissingKeyMessage)))]]
            /\ UNCHANGED open_sessions
       ELSE LET id == NewSession(open_sessions)
            IN  /\ inv' = [inv EXCEPT ![i] =
                        [@ EXCEPT !.events = Append(@, CallEvent(inv[i].original_text)),
                                  !.session = id, !.pc = "posting",
                                  !.sent = Append(@, Request(GOOGLE_API_KEY,
                                                             inv[i].original_text))]]
                /\ open_sessions' = open_sessions \cup {id}
    /\ UNCHANGED <<GOOGLE_API_KEY, text_input, endpoint, call, open_responses>>

\* await session.post(...) ends (line 75): it raises, or a response arrives
\* and its scope is entered.
PostEnds(i) ==
    /\ inv[i].pc = "posting"
    /\ \E ep \in BotEndpoints :
        IF ep.post = "raise"
        THEN /\ inv' = [inv EXCEPT ![i] =
                    [@ EXCEPT !.pc = "exiting", !.end = Raise("post", "ClientConnectorError")]]
             /\ UNCHANGED open_responses
        ELSE /\ inv' = [inv EXCEPT ![i] = [@ EXCEPT !.pc = "reading", !.response = ep]]
             /\ open_responses' = open_responses \cup {inv[i].session}
    /\ UNCHANGED <<GOOGLE_API_KEY, text_input, endpoint, call, open_sessions>>

\* the body of the response scope (lines 76-84): the body is read and the
\* call's end decided.
ReadBody(i) ==
    /\ inv[i].pc = "reading"
    /\ inv' = [inv EXCEPT ![i] =
            [@ EXCEPT !.pc = "exiting", !.end = HandleResponse(inv[i].response)]]
    /\ UNCHANGED <<GOOGLE_API_KEY, text_input, endpoint, call, open_sessions, open_responses>>

\* the call leaves both "async with" scopes (lines 74-75) and ends in the
\* handler's try block (lines 143-150).
ExitScopes(i) ==
    /\ inv[i].pc = "exiting"
    /\ open_responses' = Exit(open_responses, inv[i].session, inv[i].end)
    /\ open_sessions' = Exit(open_sessions, inv[i].session, inv[i].end)
    /\ inv' = [inv EXCEPT ![i] =
            [@ EXCEPT !.pc = AfterCall(inv[i].end), !.e = inv[i].end.exc,
                      !.session = 0, !.response = NoResponse]]
    /\ UNCHANGED <<GOOGLE_API_KEY, text_input, endpoint, call>>

\* followup.send of the result (lines 148 and 174-176): the text itself, or
\* an ephemeral embed that holds it; the send may raise.
Followup(i) ==
    /\ inv[i].pc = "followup"
    /\ \E ok \in BOOLEAN :
        inv' = [inv EXCEPT ![i] =
            [@ EXCEPT !.pc = IF ok THEN "done" ELSE "except",
                      !.e = IF ok THEN @ ELSE "HTTPException",
                      !.events = Append(@, Event("followup", inv[i].end.value,
                                                  IsEphemeral(inv[i].handler),
                                                  IsEphemeral(inv[i].handler), ok))]]
    /\ UNCHANGED <<GOOGLE_API_KEY, text_input, endpoint, call, open_sessions, open_responses>>

\* except Exception as e (lines 150-153 and 178-181): the handler sends the
\* ephemeral followup and ends, whether or not this send raises.
Except(i) ==
    /\ inv[i].pc = "except"
    /\ inv' = [inv EXCEPT ![i] =
            [@ EXCEPT !.pc = "done",
                      !.events = Append(@, Event("followup",
                                                  PyStr("Something went wrong: " \o inv[i].e),
                                                  FALSE, TRUE, TRUE))]]
    /\ UNCHANGED <<GOOGLE_API_KEY, text_input, endpoint, call, open_sessions, open_responses>>

BotNext ==
    \E i \in Invocations :
        \/ Invoke(i)
        \/ StartCall(i)
        \/ PostEnds(i)
        \/ ReadBody(i)
        \/ ExitScopes(i)
        \/ Followup(i)
        \/ Except(i)

BotSpec == BotInit /\ [][BotNext]_vars

(***************************************************************************)
(* The claims about the handlers and the scopes of their calls.             *)
(***************************************************************************)
InCall(i) == inv[i].pc \in {"posting", "reading", "exiting"}
HoldsResponse(i) ==
    inv[i].pc = "reading" \/ (inv[i].pc = "exiting" /\ inv[i].end.branch # "post")
CallEnded(i) == inv[i].pc \in {"followup", "except", "done"} /\ inv[i].original_text # ""

\* C9: a call that opened a client session and a response scope has released
\* both when it has ended, by a return or by an exception; no two calls in flight hold the same
\* session; a call that reaches the network opens its own session and sends
\* exactly one POST.
C9_ScopesReleased ==
    /\ open_sessions = {inv[i].session : i \in {j \in Invocations : InCall(j)}}
    /\ open_responses = {inv[i].session : i \in {j \in Invocations : HoldsResponse(j)}}
    /\ \A i \in Invocations :
        /\ InCall(i) => inv[i].session # 0 /\ Len(inv[i].sent) = 1
        /\ CallEnded(i) =>
            /\ inv[i].session = 0
            /\ inv[i].session \notin open_sessions \cup open_responses
            /\ Len(inv[i].sent) = IF inv[i].end.branch = "missing_key" THEN 0 ELSE 1
        /\ \A j \in Invocations \ {i} :
            InCall(i) /\ InCall(j) => inv[i].session # inv[j].session

C9_Witness ==
    \E i, j \in Invocations :
        /\ inv[i].pc = "except" /\ inv[i].end.branch = "subscript" /\ Len(inv[i].sent) = 1
        /\ inv[j].pc = "reading"
        /\ open_sessions = {inv[j].session}
        /\ open_responses = {inv[j].session}

ErrorFollowup(e) ==
    Event("followup", PyStr("Something went wrong: " \o e), FALSE, TRUE, TRUE)

====
